---- MODULE Spec2Model ----
(***************************************************************************)
(* A model of the two-level read clustering of src/data/component.py:      *)
(*                                                                         *)
(*   connectedComponentsByOffset   the generator that partitions a set of  *)
(*                                 reads into offset-connected groups and   *)
(*                                 wraps each in a ComponentByOffsets;      *)
(*   ComponentByOffsets.__init__   which runs _findConsistentComponents     *)
(*                                 (rounds of a two-phase greedy consensus) *)
(*                                 and then _check.                         *)
(*                                                                         *)
(* A read is an identity (a number) with the three things the code uses:   *)
(* read.significantOffsets, read.offset and read.base(offset).             *)
(* Python's arbitrary choices (set.pop, the iteration order of a set, the  *)
(* order sorted() gives to reads with equal keys, which is the iteration   *)
(* order of the set being sorted) are nondeterministic choices here.       *)
(***************************************************************************)
EXTENDS Integers, Sequences, FiniteSets, TLC

\* ------------------------------------------------------------------ bounds

\* At most this many reads in the input set.
MaxReads == 3
\* Thresholds are the fractions k/ThreshDen, k in 0..ThreshDen.
ThreshDen == 2

\* The value domains of a read. The significant offsets of the model:
Offsets == {1, 2}
\* the start offsets (read.offset) of the model:
StartOffsets == {0, 1}
\* and its nucleotides, in a fixed order (used only to number them).
BaseSeq == <<"A", "C">>
Bases == {BaseSeq[i] : i \in DOMAIN BaseSeq}

\* The threshold is a float in [0, 1]. It is kept as an exact fraction: for a
\* float nearest to k/ThreshDen and the small counts of the model, Python's
\* correctly rounded matching / total >= threshold decides as the fractions do.
Thresholds == {[num |-> k, den |-> ThreshDen] : k \in 0 .. ThreshDen}

\* ------------------------------------------------------------------ inputs

\* Every read the model can be given: a set of significant offsets (empty
\* included: the code does not check its documented precondition), a base at
\* each of them and a start offset.
ReadKinds ==
    UNION {{[significantOffsets |-> S, offset |-> st, base |-> f] :
                f \in [S -> Bases], st \in StartOffsets} : S \in SUBSET Offsets}

BaseIndex(b) == CHOOSE i \in DOMAIN BaseSeq : BaseSeq[i] = b

\* A number that identifies a kind of read: only used to list the input reads
\* in one order, since read identities are interchangeable (every choice the
\* code makes among reads is arbitrary or by key).
RECURSIVE OffsetsCode(_, _)
OffsetsCode(k, S) ==
    IF S = {} THEN 0
    ELSE LET o == CHOOSE x \in S : \A y \in S : y <= x
         IN  (IF o \in k.significantOffsets THEN BaseIndex(k.base[o]) ELSE 0)
             + (Len(BaseSeq) + 1) * OffsetsCode(k, S \ {o})

KindCode(k) == k.offset + Cardinality(StartOffsets) * OffsetsCode(k, Offsets)

\* The input read sets of n reads, identities 1..n, listed by KindCode.
InputsOfSize(n) ==
    {f \in [1 .. n -> ReadKinds] :
        \A i \in 1 .. n - 1 : KindCode(f[i]) <= KindCode(f[i + 1])}

\* ------------------------------------------------------------------- state

VARIABLES
    input,              \* read identity -> its significantOffsets, offset, base
    threshold,          \* the threshold argument
    caller,             \* "generator": connectedComponentsByOffset builds the
                        \* ComponentByOffsets; "direct": it is constructed on
                        \* the whole input set
    pc,                 \* the position in the code
    \* connectedComponentsByOffset
    significantReads,   \* the (mutated) argument set
    component,          \* the group being grown
    offsets,            \* the union of its reads' significant offsets
    addedSomething,
    these,              \* reads absorbed in the current pass
    toScan,             \* reads of significantReads the for loop has yet to visit
    yielded,            \* the ComponentByOffsets yielded so far (reads, offsets)
    \* ComponentByOffsets
    selfReads,          \* self.reads
    selfOffsets,        \* self.offsets
    consistentComponents, \* the ConsistentComponents yielded so far
    \* _findConsistentComponents
    componentReads,
    reads,              \* the sorted list of the round (reads are removed from it)
    todo,               \* what is left of the copy reads[1:] phase 1 iterates
    read0,
    theseCC,            \* the round's "these"
    nucleotides,        \* the round's tally: offset -> base -> count
    rejected,
    toScore,            \* reads of rejected the phase-2 loop has yet to visit
    acceptedRejects

genVars == <<significantReads, component, offsets, addedSomething, these, toScan, yielded>>
objVars == <<selfReads, selfOffsets, consistentComponents>>
roundVars == <<reads, todo, read0, theseCC, nucleotides, rejected, toScore, acceptedRejects>>
vars == <<input, threshold, caller, pc, genVars, objVars, componentReads, roundVars>>

\* --------------------------------------------------------- reads and tallies

InputReads == DOMAIN input
significantOffsets(r) == input[r].significantOffsets
base(r, o) == input[r].base[o]
startOffset(r) == input[r].offset

\* defaultdict(Counter) with no key.
EmptyTally == <<>>

\* nucleotides[offset][base] += 1 on a defaultdict(Counter).
Increment(nuc, o, b) ==
    IF o \in DOMAIN nuc
    THEN IF b \in DOMAIN nuc[o]
         THEN [nuc EXCEPT ![o][b] = @ + 1]
         ELSE [nuc EXCEPT ![o] = [x \in DOMAIN @ \cup {b} |-> IF x = b THEN 1 ELSE @[x]]]
    ELSE [x \in DOMAIN nuc \cup {o} |-> IF x = o THEN [y \in {b} |-> 1] ELSE nuc[x]]

\* for offset in read.significantOffsets: nucleotides[offset][read.base(offset)] += 1
\* (the offsets of a read are distinct, so the order of the loop is immaterial).
RECURSIVE AddOffsets(_, _, _)
AddOffsets(nuc, r, S) ==
    IF S = {} THEN nuc
    ELSE LET o == CHOOSE x \in S : TRUE
         IN  AddOffsets(Increment(nuc, o, base(r, o)), r, S \ {o})

AddRead(nuc, r) == AddOffsets(nuc, r, significantOffsets(r))

RECURSIVE AddReads(_, _)
AddReads(nuc, S) ==
    IF S = {} THEN nuc
    ELSE LET r == CHOOSE x \in S : TRUE
         IN  AddReads(AddRead(nuc, r), S \ {r})

\* ----------------------------------------------------------------- initial

Init ==
    /\ \E n \in 0 .. MaxReads : input \in InputsOfSize(n)
    /\ threshold \in Thresholds
    /\ caller = "none"
    /\ pc = "start"
    /\ significantReads = {}
    /\ component = {}
    /\ offsets = {}
    /\ addedSomething = FALSE
    /\ these = {}
    /\ toScan = {}
    /\ yielded = <<>>
    /\ selfReads = {}
    /\ selfOffsets = {}
    /\ consistentComponents = <<>>
    /\ componentReads = {}
    /\ reads = <<>>
    /\ todo = <<>>
    /\ read0 = 0    \* no read: identities start at 1
    /\ theseCC = {}
    /\ nucleotides = EmptyTally
    /\ rejected = {}
    /\ toScore = {}
    /\ acceptedRejects = {}

\* ------------------------------------------- connectedComponentsByOffset

\* ComponentByOffsets.__init__ up to the call of _findConsistentComponents,
\* and that generator's first lines: the object's fields and the copy of
\* self.reads the rounds consume.
Construct(rs, offs) ==
    /\ selfReads' = rs
    /\ selfOffsets' = offs
    /\ consistentComponents' = <<>>
    /\ componentReads' = rs
    /\ pc' = "round"

\* The generator is started on the input set.
CallGenerator ==
    /\ pc = "start"
    /\ caller' = "generator"
    /\ significantReads' = InputReads
    /\ pc' = "loop"
    /\ UNCHANGED <<input, threshold, component, offsets, addedSomething, these,
                   toScan, yielded, objVars, componentReads, roundVars>>

\* ComponentByOffsets(reads, offsets, threshold) on the whole input set, with
\* the union of its reads' offsets (the rounds never read self.offsets).
ConstructDirect ==
    /\ pc = "start"
    /\ caller' = "direct"
    /\ Construct(InputReads, UNION {significantOffsets(r) : r \in InputReads})
    /\ UNCHANGED <<input, threshold, genVars, roundVars>>

\* while significantReads: element = significantReads.pop() ...
Pop ==
    /\ pc = "loop"
    /\ significantReads # {}
    /\ \E element \in significantReads :
          /\ significantReads' = significantReads \ {element}
          /\ component' = {element}
          /\ offsets' = significantOffsets(element)
    /\ addedSomething' = TRUE
    /\ pc' = "while"
    /\ UNCHANGED <<input, threshold, caller, these, toScan, yielded, objVars,
                   componentReads, roundVars>>

\* while significantReads: the set is empty, the generator is exhausted.
Exhausted ==
    /\ pc = "loop"
    /\ significantReads = {}
    /\ pc' = "exhausted"
    /\ UNCHANGED <<input, threshold, caller, genVars, objVars, componentReads, roundVars>>

\* while addedSomething: addedSomething = False; these = set(); for read in ...
BeginPass ==
    /\ pc = "while"
    /\ addedSomething
    /\ addedSomething' = FALSE
    /\ these' = {}
    /\ toScan' = significantReads
    /\ pc' = "for"
    /\ UNCHANGED <<input, threshold, caller, significantReads, component, offsets,
                   yielded, objVars, componentReads, roundVars>>

\* ScanRead without offsets.update(read.significantOffsets): the group's
\* offsets stay those of the seed.
ScanRead_NoOffsetsUpdate ==
    /\ pc = "for"
    /\ \E read \in toScan :
          /\ toScan' = toScan \ {read}
          /\ IF offsets \cap significantOffsets(read) # {}
             THEN /\ addedSomething' = TRUE
                  /\ these' = these \cup {read}
             ELSE UNCHANGED <<addedSomething, these>>
    /\ UNCHANGED <<input, threshold, caller, pc, significantReads, component, offsets,
                   yielded, objVars, componentReads, roundVars>>

\* ScanRead without the intersection test: every read of the pool is absorbed.
ScanRead_AbsorbsAll ==
    /\ pc = "for"
    /\ \E read \in toScan :
          /\ toScan' = toScan \ {read}
          /\ addedSomething' = TRUE
          /\ these' = these \cup {read}
          /\ offsets' = offsets \cup significantOffsets(read)
    /\ UNCHANGED <<input, threshold, caller, pc, significantReads, component,
                   yielded, objVars, componentReads, roundVars>>

\* One iteration of for read in significantReads (in the set's order).
ScanRead ==
    /\ pc = "for"
    /\ \E read \in toScan :
          /\ toScan' = toScan \ {read}
          /\ IF offsets \cap significantOffsets(read) # {}
             THEN /\ addedSomething' = TRUE
                  /\ these' = these \cup {read}
                  /\ offsets' = offsets \cup significantOffsets(read)
             ELSE UNCHANGED <<addedSomething, these, offsets>>
    /\ UNCHANGED <<input, threshold, caller, pc, significantReads, component,
                   yielded, objVars, componentReads, roundVars>>

\* EndPass without component.update(these): absorbed reads leave the pool
\* and reach no group.
EndPass_NoUpdate ==
    /\ pc = "for"
    /\ toScan = {}
    /\ IF these # {}
       THEN significantReads' = significantReads \ these
       ELSE UNCHANGED significantReads
    /\ pc' = "while"
    /\ UNCHANGED <<input, threshold, caller, component, offsets, addedSomething, these,
                   toScan, yielded, objVars, componentReads, roundVars>>

\* The for loop is over: if these: move them from the pool to the component.
EndPass ==
    /\ pc = "for"
    /\ toScan = {}
    /\ IF these # {}
       THEN /\ significantReads' = significantReads \ these
            /\ component' = component \cup these
       ELSE UNCHANGED <<significantReads, component>>
    /\ pc' = "while"
    /\ UNCHANGED <<input, threshold, caller, offsets, addedSomething, these, toScan,
                   yielded, objVars, componentReads, roundVars>>

\* A pass added nothing: yield ComponentByOffsets(component, offsets, threshold),
\* whose construction runs the rounds below before the generator goes on.
Yield ==
    /\ pc = "while"
    /\ ~addedSomething
    /\ Construct(component, offsets)
    /\ UNCHANGED <<input, threshold, caller, genVars, roundVars>>

\* ---------------------------------------------- _findConsistentComponents

\* key(read), and the order of two keys.
Key(r) == <<Cardinality(significantOffsets(r)), startOffset(r)>>
KeyGE(a, b) == a[1] > b[1] \/ (a[1] = b[1] /\ a[2] >= b[2])

\* sorted(componentReads, key=key, reverse=True): every listing of the set by
\* decreasing key; reads of equal key come in the set's iteration order.
Sorted(S) ==
    {s \in [1 .. Cardinality(S) -> S] :
        /\ \A i, j \in DOMAIN s : i # j => s[i] # s[j]
        /\ \A i, j \in DOMAIN s : i < j => KeyGE(Key(s[i]), Key(s[j]))}

\* list.remove(read), for a list of distinct reads.
Remove(s, r) == SelectSeq(s, LAMBDA x : x # r)

\* Conflicts taking an offset that is no key of the tally for a mismatch.
Conflicts_MissingKey(r, nuc) ==
    \E o \in significantOffsets(r) : o \notin DOMAIN nuc \/ base(r, o) \notin DOMAIN nuc[o]

\* The inner loop of phase 1 breaks: at an offset that is a key of the tally
\* the read's base is not among the bases recorded there.
Conflicts(r, nuc) ==
    \E o \in significantOffsets(r) : o \in DOMAIN nuc /\ base(r, o) \notin DOMAIN nuc[o]

\* The counts of phase 2 for a read against a tally.
Total(r, nuc) == Cardinality({o \in significantOffsets(r) : o \in DOMAIN nuc})
Matching(r, nuc) ==
    Cardinality({o \in significantOffsets(r) :
                    o \in DOMAIN nuc /\ base(r, o) \in DOMAIN nuc[o]})

\* Salvaged with the comparison turned round: matching / total <= threshold.
Salvaged_Reversed(r, nuc, t) ==
    /\ Total(r, nuc) # 0
    /\ Matching(r, nuc) * t.den <= t.num * Total(r, nuc)

\* Salvaged without the threshold: if total.
Salvaged_NoThreshold(r, nuc, t) == Total(r, nuc) # 0

\* Salvaged with a strict comparison: matching / total > threshold.
Salvaged_Strict(r, nuc, t) ==
    /\ Total(r, nuc) # 0
    /\ Matching(r, nuc) * t.den > t.num * Total(r, nuc)

\* if total and matching / total >= threshold
Salvaged(r, nuc, t) ==
    /\ Total(r, nuc) # 0
    /\ Matching(r, nuc) * t.den >= t.num * Total(r, nuc)

\* BeginRound with these = set(): the seed's bases are tallied but the seed
\* does not join the round's component.
BeginRound_SeedNotAdded ==
    /\ pc = "round"
    /\ componentReads # {}
    /\ \E s \in Sorted(componentReads) :
          /\ reads' = s
          /\ read0' = s[1]
          /\ nucleotides' = AddRead(EmptyTally, s[1])
          /\ todo' = Tail(s)
    /\ theseCC' = {}
    /\ rejected' = {}
    /\ pc' = "phase1"
    /\ UNCHANGED <<input, threshold, caller, genVars, objVars, componentReads,
                   toScore, acceptedRejects>>

\* while componentReads: sort, seed the round with reads[0] and its tally.
BeginRound ==
    /\ pc = "round"
    /\ componentReads # {}
    /\ \E s \in Sorted(componentReads) :
          /\ reads' = s
          /\ read0' = s[1]
          /\ theseCC' = {s[1]}
          /\ nucleotides' = AddRead(EmptyTally, s[1])
          /\ todo' = Tail(s)
    /\ rejected' = {}
    /\ pc' = "phase1"
    /\ UNCHANGED <<input, threshold, caller, genVars, objVars, componentReads,
                   toScore, acceptedRejects>>

\* Phase1Step without the loop over nucleotidesIfAccepted: an accepted read's
\* bases are not added to the tally.
Phase1Step_NoTally ==
    /\ pc = "phase1"
    /\ todo # <<>>
    /\ LET read == Head(todo)
       IN  IF Conflicts(read, nucleotides)
           THEN /\ rejected' = rejected \cup {read}
                /\ UNCHANGED <<reads, theseCC>>
           ELSE /\ reads' = Remove(reads, read)
                /\ theseCC' = theseCC \cup {read}
                /\ UNCHANGED rejected
    /\ todo' = Tail(todo)
    /\ UNCHANGED <<input, threshold, caller, pc, genVars, objVars, componentReads,
                   read0, nucleotides, toScore, acceptedRejects>>

\* One iteration of for read in reads[1:].
Phase1Step ==
    /\ pc = "phase1"
    /\ todo # <<>>
    /\ LET read == Head(todo)
       IN  IF Conflicts(read, nucleotides)
           THEN /\ rejected' = rejected \cup {read}
                /\ UNCHANGED <<nucleotides, reads, theseCC>>
           ELSE /\ nucleotides' = AddRead(nucleotides, read)
                /\ reads' = Remove(reads, read)
                /\ theseCC' = theseCC \cup {read}
                /\ UNCHANGED rejected
    /\ todo' = Tail(todo)
    /\ UNCHANGED <<input, threshold, caller, pc, genVars, objVars, componentReads,
                   read0, toScore, acceptedRejects>>

\* Phase 1 is over: acceptedRejects = set(); for read in rejected ...
BeginPhase2 ==
    /\ pc = "phase1"
    /\ todo = <<>>
    /\ acceptedRejects' = {}
    /\ toScore' = rejected
    /\ pc' = "phase2"
    /\ UNCHANGED <<input, threshold, caller, genVars, objVars, componentReads,
                   reads, todo, read0, theseCC, nucleotides, rejected>>

\* ScoreReject adding an accepted reject's bases to the tally at once, while
\* other rejects are still to be scored.
ScoreReject_EagerMerge ==
    /\ pc = "phase2"
    /\ \E read \in toScore :
          /\ toScore' = toScore \ {read}
          /\ IF Salvaged(read, nucleotides, threshold)
             THEN /\ acceptedRejects' = acceptedRejects \cup {read}
                  /\ reads' = Remove(reads, read)
                  /\ theseCC' = theseCC \cup {read}
                  /\ nucleotides' = AddRead(nucleotides, read)
             ELSE UNCHANGED <<acceptedRejects, reads, theseCC, nucleotides>>
    /\ UNCHANGED <<input, threshold, caller, pc, genVars, objVars, componentReads,
                   todo, read0, rejected>>

\* One iteration of for read in rejected (in the set's order).
ScoreReject ==
    /\ pc = "phase2"
    /\ \E read \in toScore :
          /\ toScore' = toScore \ {read}
          /\ IF Salvaged(read, nucleotides, threshold)
             THEN /\ acceptedRejects' = acceptedRejects \cup {read}
                  /\ reads' = Remove(reads, read)
                  /\ theseCC' = theseCC \cup {read}
             ELSE UNCHANGED <<acceptedRejects, reads, theseCC>>
    /\ UNCHANGED <<input, threshold, caller, pc, genVars, objVars, componentReads,
                   todo, read0, nucleotides, rejected>>

\* EndRound without the second part of phase 2: the accepted rejects' bases
\* never reach the tally.
EndRound_NoMerge ==
    /\ pc = "phase2"
    /\ toScore = {}
    /\ componentReads' = componentReads \ theseCC
    /\ consistentComponents' =
          Append(consistentComponents, [reads |-> theseCC, nucleotides |-> nucleotides])
    /\ reads' = <<>>
    /\ todo' = <<>>
    /\ read0' = 0
    /\ theseCC' = {}
    /\ nucleotides' = EmptyTally
    /\ rejected' = {}
    /\ acceptedRejects' = {}
    /\ pc' = "round"
    /\ UNCHANGED <<input, threshold, caller, genVars, selfReads, selfOffsets, toScore>>

\* EndRound taking only the seed out of componentReads: the round's other
\* reads are clustered again.
EndRound_RemovesSeedOnly ==
    /\ pc = "phase2"
    /\ toScore = {}
    /\ componentReads' = componentReads \ {read0}
    /\ consistentComponents' =
          Append(consistentComponents,
                 [reads |-> theseCC,
                  nucleotides |-> AddReads(nucleotides, acceptedRejects)])
    /\ reads' = <<>>
    /\ todo' = <<>>
    /\ read0' = 0
    /\ theseCC' = {}
    /\ nucleotides' = EmptyTally
    /\ rejected' = {}
    /\ acceptedRejects' = {}
    /\ pc' = "round"
    /\ UNCHANGED <<input, threshold, caller, genVars, selfReads, selfOffsets, toScore>>

\* The rejects are all scored: add the accepted ones' bases to the tally, take
\* the round's reads out of componentReads and yield the ConsistentComponent.
\* The round's locals are dead from here and are cleared.
EndRound ==
    /\ pc = "phase2"
    /\ toScore = {}
    /\ componentReads' = componentReads \ theseCC
    /\ consistentComponents' =
          Append(consistentComponents,
                 [reads |-> theseCC,
                  nucleotides |-> AddReads(nucleotides, acceptedRejects)])
    /\ reads' = <<>>
    /\ todo' = <<>>
    /\ read0' = 0
    /\ theseCC' = {}
    /\ nucleotides' = EmptyTally
    /\ rejected' = {}
    /\ acceptedRejects' = {}
    /\ pc' = "round"
    /\ UNCHANGED <<input, threshold, caller, genVars, selfReads, selfOffsets, toScore>>

\* ------------------------------------------------------ ComponentByOffsets

RECURSIVE SumLen(_)
SumLen(ccs) == IF ccs = <<>> THEN 0 ELSE Cardinality(Head(ccs).reads) + SumLen(Tail(ccs))

\* The rounds are over (list(...) is complete): _check, and then the object
\* is there: the generator yields it and goes on, the direct caller has it.
\* What the generator yielded is kept as its reads and offsets.
Check ==
    /\ pc = "round"
    /\ componentReads = {}
    /\ IF Cardinality(selfReads) # SumLen(consistentComponents)
       THEN /\ pc' = "AssertionError"
            /\ UNCHANGED <<yielded, objVars>>
       ELSE IF caller = "generator"
            THEN /\ yielded' = Append(yielded, [reads |-> selfReads, offsets |-> selfOffsets])
                 /\ selfReads' = {}
                 /\ selfOffsets' = {}
                 /\ consistentComponents' = <<>>
                 /\ pc' = "loop"
            ELSE /\ pc' = "done"
                 /\ UNCHANGED <<yielded, objVars>>
    /\ UNCHANGED <<input, threshold, caller, significantReads, component, offsets,
                   addedSomething, these, toScan, componentReads, roundVars>>

\* ------------------------------------------------------------ specification

Next ==
    \/ CallGenerator
    \/ ConstructDirect
    \/ Pop
    \/ Exhausted
    \/ BeginPass
    \/ ScanRead
    \/ EndPass
    \/ Yield
    \/ BeginRound
    \/ Phase1Step
    \/ BeginPhase2
    \/ ScoreReject
    \/ EndRound
    \/ Check

Spec == Init /\ [][Next]_vars

\* ------------------------------------------------- what the claims speak of

\* Two reads are adjacent when their significant-offset sets intersect.
Adjacent(a, b) == significantOffsets(a) \cap significantOffsets(b) # {}

\* The input reads a chain of adjacent input reads leads to from a read of S.
RECURSIVE ReachFrom(_)
ReachFrom(S) ==
    LET N == S \cup {r \in InputReads : \E s \in S : Adjacent(s, r)}
    IN  IF N = S THEN S ELSE ReachFrom(N)

\* Both reads are in one yielded group.
SameGroup(a, b) == \E i \in DOMAIN yielded : {a, b} \subseteq yielded[i].reads

\* The rounds of the ComponentByOffsets under construction are over (its
\* consistentComponents is complete; _check comes next), or it is constructed.
ClusteringDone == (pc = "round" /\ componentReads = {}) \/ pc = "done"

\* The rounds are running.
InRounds == pc \in {"round", "phase1", "phase2"}

\* The read set the ComponentByOffsets was constructed with.
CtorReads == IF caller = "generator" THEN component ELSE InputReads

\* The number of reads of S that cover offset o with base b.
MemberCount(S, o, b) ==
    Cardinality({m \in S : o \in significantOffsets(m) /\ base(m, o) = b})

\* nuc is the tally of exactly the reads of S.
IsTallyOf(nuc, S) ==
    /\ DOMAIN nuc = UNION {significantOffsets(m) : m \in S}
    /\ \A o \in DOMAIN nuc :
          /\ DOMAIN nuc[o] = {b \in Bases : MemberCount(S, o, b) > 0}
          /\ \A b \in DOMAIN nuc[o] : nuc[o][b] = MemberCount(S, o, b) /\ nuc[o][b] >= 1

\* Phase 2's decision for read r, told from the reads S themselves: the
\* fraction of r's offsets covered by a read of S at which a read of S has
\* r's base is at least t (and some offset of r is covered).
SalvagedByReads(r, S, t) ==
    LET total == Cardinality({o \in significantOffsets(r) :
                                 \E m \in S : o \in significantOffsets(m)})
        matching == Cardinality({o \in significantOffsets(r) :
                                    MemberCount(S, o, base(r, o)) > 0})
    IN  total > 0 /\ matching * t.den >= t.num * total

\* Read r shares no significant offset with any other read of S.
Isolated(r, S) == \A m \in S \ {r} : ~Adjacent(r, m)

\* Any two reads of S have the same base at every offset both cover.
Agreeing(S) ==
    \A a, b \in S :
        \A o \in significantOffsets(a) \cap significantOffsets(b) : base(a, o) = base(b, o)

\* The reads of S that cover offset o.
Covering(S, o) == {m \in S : o \in significantOffsets(m)}

\* A measure of a state of the rounds that every step of them lowers.
Rank ==
    (3 * Cardinality(componentReads)
        + (CASE pc = "round" -> 2 [] pc = "phase1" -> 1 [] OTHER -> 0))
        * (Cardinality(selfReads) + 1)
    + Len(todo) + Cardinality(toScore)

\* ------------------------------------------------------------------ claims

\* C1: once connectedComponentsByOffset is exhausted, the yielded groups'
\* read sets are pairwise disjoint and their union is the input set: every
\* input read belongs to exactly one yielded group.
C1_PartitionComplete ==
    pc = "exhausted" =>
        /\ \A i, j \in DOMAIN yielded :
              i # j => yielded[i].reads \cap yielded[j].reads = {}
        /\ UNION {yielded[i].reads : i \in DOMAIN yielded} = InputReads

\* The generator is exhausted after yielding several groups, one of them of
\* several reads.
C1_Witness ==
    /\ pc = "exhausted"
    /\ Len(yielded) >= 2
    /\ \E i \in DOMAIN yielded : Cardinality(yielded[i].reads) >= 2

\* C2: once the generator is exhausted, two input reads are in the same
\* yielded group exactly when a chain of input reads with intersecting
\* offsets leads from one to the other, and a read adjacent to no other read
\* is a group of its own, whichever reads pop and the scans pick.
C2_Connectivity ==
    pc = "exhausted" =>
        /\ \A a, b \in InputReads : SameGroup(a, b) <=> b \in ReachFrom({a})
        /\ \A a \in InputReads :
              (\A b \in InputReads \ {a} : ~Adjacent(a, b))
                  => \E i \in DOMAIN yielded : yielded[i].reads = {a}

\* The generator is exhausted, one group holds two reads that share no offset
\* (only a chain through a third read connects them).
C2_Witness ==
    /\ pc = "exhausted"
    /\ \E i \in DOMAIN yielded : \E a, b \in yielded[i].reads : a # b /\ ~Adjacent(a, b)

\* C3: the ConsistentComponents of a ComponentByOffsets partition its reads
\* (pairwise disjoint, union self.reads), so the count _check compares agree
\* and its assertion never fails, and self.reads is the set it was given.
C3_SubclusterPartition ==
    /\ pc # "AssertionError"
    /\ ClusteringDone =>
          /\ \A i, j \in DOMAIN consistentComponents :
                i # j => consistentComponents[i].reads \cap consistentComponents[j].reads = {}
          /\ UNION {consistentComponents[i].reads : i \in DOMAIN consistentComponents}
                = selfReads
          /\ SumLen(consistentComponents) = Cardinality(selfReads)
          /\ selfReads = CtorReads

\* The rounds are over for a group of at least three reads they split into
\* several components.
C3_Witness ==
    /\ ClusteringDone
    /\ Cardinality(selfReads) >= 3
    /\ Len(consistentComponents) >= 2

\* C4: for a group of N reads the rounds end after at most N rounds: the
\* seed is in the round's component, every emitted component is non-empty,
\* componentReads strictly shrinks with each round, and every step of the
\* rounds lowers Rank (so they cannot go on for ever).
C4_TerminationBound ==
    /\ [](InRounds =>
            /\ Len(consistentComponents) + Cardinality(componentReads)
                  <= Cardinality(selfReads)
            /\ \A i \in DOMAIN consistentComponents : consistentComponents[i].reads # {}
            /\ pc \in {"phase1", "phase2"} => read0 \in theseCC /\ theseCC \subseteq componentReads)
    /\ [][(pc = "phase2" /\ pc' = "round")
             => (componentReads' \subseteq componentReads /\ componentReads' # componentReads)]_vars
    /\ [][(InRounds /\ InRounds') => Rank' < Rank]_vars

\* The rounds are over and took as many rounds as the group has reads, for a
\* group of MaxReads reads.
C4_Witness ==
    /\ ClusteringDone
    /\ Cardinality(selfReads) = MaxReads
    /\ Len(consistentComponents) = MaxReads

\* C5: in phase 1, a read none of whose significant offsets is a key of the
\* tally when it is examined joins the round's component, and each of its
\* offsets becomes a key of the tally counting its base once (the other keys
\* unchanged), whatever the threshold.
C5_VacuousAgreement ==
    [][(/\ pc = "phase1"
        /\ todo # <<>>
        /\ \A o \in significantOffsets(Head(todo)) : o \notin DOMAIN nucleotides)
          => /\ Head(todo) \in theseCC'
             /\ Head(todo) \notin rejected'
             /\ DOMAIN nucleotides' = DOMAIN nucleotides \cup significantOffsets(Head(todo))
             /\ \A o \in significantOffsets(Head(todo)) :
                   nucleotides'[o] = [b \in {base(Head(todo), o)} |-> 1]
             /\ \A o \in DOMAIN nucleotides : nucleotides'[o] = nucleotides[o]]_vars

\* Phase 1 has accepted a read with offsets of its own, none of them shared
\* with any other read of the round's component.
C5_Witness ==
    /\ pc = "phase1"
    /\ \E r \in theseCC \ {read0} :
          /\ significantOffsets(r) # {}
          /\ \A m \in theseCC \ {r} : ~Adjacent(r, m)

\* C6: while the rejects are scored the tally stays the tally of the reads
\* phase 1 accepted, and the rejects accepted so far are exactly the scored
\* ones that pass against those reads: the outcome depends neither on the
\* order of scoring nor on which other rejects were accepted.
C6_Phase2Isolation ==
    pc = "phase2" =>
        LET phase1Reads == theseCC \ acceptedRejects
        IN  /\ IsTallyOf(nucleotides, phase1Reads)
            /\ acceptedRejects =
                  {r \in rejected \ toScore : SalvagedByReads(r, phase1Reads, threshold)}

\* All rejects of a round are scored: several were rejected, one was accepted
\* and another was not.
C6_Witness ==
    /\ pc = "phase2"
    /\ toScore = {}
    /\ Cardinality(rejected) >= 2
    /\ acceptedRejects # {}
    /\ acceptedRejects # rejected

\* C7: the tally of every emitted ConsistentComponent is the tally of its
\* member reads: its keys are the union of their significant offsets, the
\* count of a base at an offset is the number of members with that base
\* there, and every recorded count is at least 1.
C7_TallyOfMembers ==
    \A i \in DOMAIN consistentComponents :
        IsTallyOf(consistentComponents[i].nucleotides, consistentComponents[i].reads)

\* An emitted component whose tally has, at one offset, two bases, one of
\* them counted at least twice (a salvaged reject is among its members).
C7_Witness ==
    \E i \in DOMAIN consistentComponents :
        \E o \in DOMAIN consistentComponents[i].nucleotides :
            /\ Cardinality(DOMAIN consistentComponents[i].nucleotides[o]) = 2
            /\ \E b \in DOMAIN consistentComponents[i].nucleotides[o] :
                  consistentComponents[i].nucleotides[o][b] >= 2

\* C8: against the tally at the end of phase 1, a reject that phase 2
\* accepts at a threshold is accepted at every lower threshold.
C8_ThresholdMonotone ==
    pc = "phase2" =>
        \A r \in rejected : \A t1, t2 \in Thresholds :
            (t1.num < t2.num /\ Salvaged(r, nucleotides, t2)) => Salvaged(r, nucleotides, t1)

\* Phase 2 is scoring a reject that passes at one threshold and fails at a
\* higher one, and that passes at two different thresholds.
C8_Witness ==
    /\ pc = "phase2"
    /\ \E r \in rejected : \E t1, t2, t3 \in Thresholds :
          /\ t1.num < t2.num /\ t2.num < t3.num
          /\ Salvaged(r, nucleotides, t1)
          /\ Salvaged(r, nucleotides, t2)
          /\ ~Salvaged(r, nucleotides, t3)

C10_ExactAgreementAtOne ==
    threshold.num = threshold.den =>
        /\ pc = "phase2" =>
              \A r \in acceptedRejects : \A o \in significantOffsets(r) :
                  o \in DOMAIN nucleotides => base(r, o) \in DOMAIN nucleotides[o]
        /\ \A i \in DOMAIN consistentComponents :
              /\ \A a, b \in consistentComponents[i].reads :
                    \A o \in significantOffsets(a) \cap significantOffsets(b) :
                        base(a, o) = base(b, o)
              /\ \A o \in DOMAIN consistentComponents[i].nucleotides :
                    Cardinality(DOMAIN consistentComponents[i].nucleotides[o]) = 1

\* With threshold 1 the rounds are over: a component of several reads that
\* share an offset was emitted, and a conflicting read went to another one.
C10_Witness ==
    /\ threshold.num = threshold.den
    /\ ClusteringDone
    /\ Len(consistentComponents) >= 2
    /\ \E i \in DOMAIN consistentComponents :
          \E a, b \in consistentComponents[i].reads : a # b /\ Adjacent(a, b)
    /\ \E a, b \in selfReads :
          \E o \in significantOffsets(a) \cap significantOffsets(b) : base(a, o) # base(b, o)

\* C11: with threshold 0, every scored reject with an offset among the keys
\* of the tally left by phase 1 is accepted in phase 2 of its round; and, at
\* every threshold, phase 2 accepts no reject without such an offset (its
\* test fails for every read that has none).
C11_ZeroThreshold ==
    pc = "phase2" =>
        /\ threshold.num = 0 =>
              \A r \in rejected \ toScore :
                  significantOffsets(r) \cap DOMAIN nucleotides # {} => r \in acceptedRejects
        /\ \A r \in acceptedRejects : significantOffsets(r) \cap DOMAIN nucleotides # {}
        /\ \A r \in InputReads : \A t \in Thresholds :
              significantOffsets(r) \cap DOMAIN nucleotides = {} => ~Salvaged(r, nucleotides, t)

\* With threshold 0 all rejects of a round are scored, and one is accepted
\* whose base is in the tally at none of its offsets.
C11_Witness ==
    /\ pc = "phase2"
    /\ threshold.num = 0
    /\ toScore = {}
    /\ \E r \in acceptedRejects :
          \A o \in significantOffsets(r) \cap DOMAIN nucleotides :
              base(r, o) \notin DOMAIN nucleotides[o]

C13_AgreeingGroup ==
    (selfReads # {} /\ Agreeing(selfReads)) =>
        /\ pc \in {"phase1", "phase2"} => rejected = {} /\ acceptedRejects = {}
        /\ ClusteringDone =>
              /\ Len(consistentComponents) = 1
              /\ consistentComponents[1].reads = selfReads
              /\ DOMAIN consistentComponents[1].nucleotides
                    = UNION {significantOffsets(m) : m \in selfReads}
              /\ \A o \in DOMAIN consistentComponents[1].nucleotides :
                    \E b \in Bases :
                        /\ DOMAIN consistentComponents[1].nucleotides[o] = {b}
                        /\ consistentComponents[1].nucleotides[o][b]
                              = Cardinality(Covering(selfReads, o))

\* The rounds are over for an agreeing group of MaxReads reads that do not
\* all cover the same offsets: one component, and at some offset one base
\* counted MaxReads times.
C13_Witness ==
    /\ ClusteringDone
    /\ Cardinality(selfReads) = MaxReads
    /\ Agreeing(selfReads)
    /\ \E a, b \in selfReads : significantOffsets(a) # significantOffsets(b)
    /\ Len(consistentComponents) = 1
    /\ \E o \in DOMAIN consistentComponents[1].nucleotides :
          \E b \in DOMAIN consistentComponents[1].nucleotides[o] :
              consistentComponents[1].nucleotides[o][b] = MaxReads

====
